---- MODULE Spec2Model ----
(***************************************************************************)
(* Model of .cursor/scripts/ai-attribution.ts: the attribution engine      *)
(* (snapshot loading, diff extraction, line filtering, TF-IDF scoring,     *)
(* aggregation) and the commit workflow of main.                           *)
(*                                                                         *)
(* A string is a sequence of one-character strings, so that startsWith,    *)
(* substring, trim, split and localeCompare are computed, not assumed.     *)
(***************************************************************************)
EXTENDS Integers, Sequences, FiniteSets, TLC

VARIABLES
  pc,               \* position of main / attributeChanges
  store,            \* the .cursor-changes tree on disk, or "missing"
  now,              \* the wall clock, in hours
  diffOut,          \* what `git diff HEAD` gives: "fail" or its text
  statusOut,        \* what `git status --short` gives: "fail" or its text
  limit,            \* the limit loadRecentSnapshots is called with
  snapshots,        \* attributeChanges: const snapshots
  currentDiff,      \* attributeChanges: const currentDiff
  snapshotSegments, \* attributeChanges: snapshotSegments
  currentSegments,  \* attributeChanges: currentSegments
  vocabulary,       \* attributeChanges: const vocabulary
  snapshotVectors,  \* attributeChanges: const snapshotVectors
  docIdx,           \* buildVocabulary: number of documents scanned
  lineIdx,          \* number of iterations of the per-line loop done
  totalLines,       \* attributeChanges: let totalLines
  aiGeneratedLines, \* attributeChanges: let aiGeneratedLines
  result,           \* the AttributionResult returned, or "none"
  commitMessage,    \* main: let commitMessage (a sequence of parts)
  gitLog,           \* the git commands main has run successfully, in order
  exitCode,         \* the exit code of the process, or -1 while it runs
  callVec1,         \* the vec1 cosineSimilarity is called with
  callVec2,         \* the vec2 cosineSimilarity is called with
  callResult        \* what that call of cosineSimilarity returned

vars == << pc, store, now, diffOut, statusOut, limit, snapshots, currentDiff,
           snapshotSegments, currentSegments, vocabulary, snapshotVectors,
           docIdx, lineIdx, totalLines, aiGeneratedLines, result, commitMessage,
           gitLog, exitCode, callVec1, callVec2, callResult >>

---------------------------------------------------------------------------
(* Bounds of the model *)

MaxDiffLines == 3
MaxStoreFiles == 2
MaxMainLines == 10
MaxDocuments == 3
MaxVectorLength == 3
MaxEntry == 2
MaxScale == 2

---------------------------------------------------------------------------
(* String primitives *)

SeqsUpTo(S, n) == UNION { [1..k -> S] : k \in 0..n }

StartsWith(s, p) == Len(s) >= Len(p) /\ SubSeq(s, 1, Len(p)) = p

EndsWith(s, p) == Len(s) >= Len(p) /\ SubSeq(s, Len(s) - Len(p) + 1, Len(s)) = p

\* String.prototype.substring(n): the characters from offset n on
Substring(s, n) == IF n >= Len(s) THEN << >> ELSE SubSeq(s, n + 1, Len(s))

IsSpace(c) == c \in {" ", "\t", "\r"}

RECURSIVE TrimStart(_)
TrimStart(s) ==
  IF s # << >> /\ IsSpace(Head(s)) THEN TrimStart(Tail(s)) ELSE s

RECURSIVE TrimEnd(_)
TrimEnd(s) ==
  IF s # << >> /\ IsSpace(s[Len(s)]) THEN TrimEnd(SubSeq(s, 1, Len(s) - 1)) ELSE s

\* String.prototype.trim
Trim(s) == TrimEnd(TrimStart(s))

\* String.prototype.split(sep) for a one-character separator: the pieces
\* between consecutive separators
Split(s, sep) ==
  LET IsSep(i) == s[i] = sep
      at    == SelectSeq([i \in 1..Len(s) |-> i], IsSep)
      cuts  == << 0 >> \o at \o << Len(s) + 1 >>
  IN  [k \in 1..(Len(at) + 1) |-> SubSeq(s, cuts[k] + 1, cuts[k + 1] - 1)]

\* Array.prototype.join(sep) for a one-character separator
RECURSIVE Join(_, _)
Join(ls, sep) ==
  IF ls = << >> THEN << >>
  ELSE IF Len(ls) = 1 THEN ls[1]
  ELSE ls[1] \o << sep >> \o Join(Tail(ls), sep)

---------------------------------------------------------------------------
(* isSkippableLine *)

\* isSkippableLine without the test for the block-comment marker
isSkippableLineNoStar(line) ==
  LET trimmed == Trim(line)
  IN  Len(trimmed) = 0 \/ StartsWith(trimmed, << "/", "/" >>)

isSkippableLine(line) ==
  LET trimmed == Trim(line)
  IN  \/ Len(trimmed) = 0
      \/ StartsWith(trimmed, << "/", "/" >>)
      \/ StartsWith(trimmed, << "*" >>)

---------------------------------------------------------------------------
(* getCurrentDiff: a Map<string, string[]> is a sequence of [file, lines]  *)
(* entries in insertion order.                                             *)

MapHas(m, k) == \E i \in 1..Len(m) : m[i].file = k

MapSet(m, k, v) ==
  IF MapHas(m, k)
  THEN [i \in 1..Len(m) |-> IF m[i].file = k THEN [file |-> k, lines |-> v] ELSE m[i]]
  ELSE Append(m, [file |-> k, lines |-> v])

\* diffMap.get(k)?.push(x): nothing happens when k is not a key
MapPushIfPresent(m, k, x) ==
  [i \in 1..Len(m) |->
     IF m[i].file = k THEN [file |-> k, lines |-> Append(m[i].lines, x)] ELSE m[i]]

\* the body of the for loop over the lines of the diff
DiffLineStep(st, line) ==
  IF StartsWith(line, << "+", "+", "+" >>)
  THEN LET f == Substring(line, 6)
       IN  [currentFile |-> f,
            diffMap |-> IF MapHas(st.diffMap, f) THEN st.diffMap
                        ELSE MapSet(st.diffMap, f, << >>)]
  ELSE IF StartsWith(line, << "+" >>) /\ ~StartsWith(line, << "+", "+", "+" >>)
  THEN [currentFile |-> st.currentFile,
        diffMap |-> MapPushIfPresent(st.diffMap, st.currentFile, Substring(line, 1))]
  ELSE st

\* the state of the loop after the first n lines
RECURSIVE DiffLoop(_, _)
DiffLoop(lines, n) ==
  IF n = 0 THEN [currentFile |-> << >>, diffMap |-> << >>]
  ELSE DiffLineStep(DiffLoop(lines, n - 1), lines[n])

\* out.ok is FALSE when execSync throws (caught: the empty map is returned)
getCurrentDiff(out) ==
  IF ~out.ok THEN << >>
  ELSE LET lines == Split(out.text, "\n")
       IN  DiffLoop(lines, Len(lines)).diffMap

---------------------------------------------------------------------------
(* loadRecentSnapshots                                                     *)
(*                                                                         *)
(* The store is [exists, entries]: entries lists the root directory, each  *)
(* entry [name, isDir, entries] a branch, each of its entries [name,       *)
(* isDir, files] a date, each file [name, readable, content].  A content   *)
(* is what JSON.parse makes of the file: [json |-> "invalid"] (it throws), *)
(* [json |-> "null"], or [json |-> "object", timestamp, changes].  A field *)
(* is [t |-> "absent"], [t |-> "string", s], [t |-> "number", n],          *)
(* [t |-> "array", items].                                                 *)

DefaultLimit == 5

Digit == << "0", "1", "2", "3", "4", "5", "6", "7", "8", "9" >>

Pad2(h) == << Digit[(h \div 10) + 1], Digit[(h % 10) + 1] >>

DotJson == << ".", "j", "s", "o", "n" >>

\* ICU root collation, restricted to the characters of the model:
\* punctuation before digits before letters
CollationRank(c) ==
  CASE c = "." -> 0
    [] c = "0" -> 1 [] c = "1" -> 2 [] c = "2" -> 3 [] c = "3" -> 4
    [] c = "4" -> 5 [] c = "5" -> 6 [] c = "6" -> 7 [] c = "7" -> 8
    [] c = "8" -> 9 [] c = "9" -> 10
    [] c = "c" -> 11 [] c = "d" -> 12 [] c = "f" -> 13 [] c = "i" -> 14
    [] c = "j" -> 15 [] c = "n" -> 16 [] c = "o" -> 17 [] c = "s" -> 18
    [] c = "T" -> 19
    [] OTHER -> 20

\* String.prototype.localeCompare: negative, zero or positive
RECURSIVE localeCompare(_, _)
localeCompare(s, t) ==
  IF s = << >> /\ t = << >> THEN 0
  ELSE IF s = << >> THEN -1
  ELSE IF t = << >> THEN 1
  ELSE IF CollationRank(Head(s)) < CollationRank(Head(t)) THEN -1
  ELSE IF CollationRank(Head(s)) > CollationRank(Head(t)) THEN 1
  ELSE localeCompare(Tail(s), Tail(t))

\* ToString of a small non-negative integer
NumberToString(n) == IF n < 10 THEN << Digit[n + 1] >> ELSE Pad2(n)

\* the || of JavaScript on a timestamp field: absent, "" and 0 are falsy
Truthy(field) ==
  CASE field.t = "absent" -> FALSE
    [] field.t = "string" -> field.s # << >>
    [] field.t = "number" -> field.n # 0
    [] OTHER -> TRUE

\* the body of the try block: "skip" when readFileSync, JSON.parse or the
\* property access on null throws
ReadSnapshot(branch, file) ==
  IF ~file.readable THEN [skip |-> TRUE]
  ELSE IF file.content.json = "invalid" THEN [skip |-> TRUE]
  ELSE IF file.content.json = "null" THEN [skip |-> TRUE]
  ELSE [skip |-> FALSE,
        snapshot |->
          [timestamp |-> IF Truthy(file.content.timestamp)
                         THEN file.content.timestamp
                         ELSE [t |-> "string", s |-> file.name],
           branch |-> branch,
           changes |-> IF Truthy(file.content.changes)
                       THEN file.content.changes
                       ELSE [t |-> "array", items |-> << >>]]]

\* ScanFiles with a catch that ends the scan of the directory
RECURSIVE ScanFilesAborting(_, _)
ScanFilesAborting(branch, files) ==
  IF files = << >> THEN << >>
  ELSE LET r == ReadSnapshot(branch, Head(files))
       IN  IF r.skip THEN << >>
           ELSE << r.snapshot >> \o ScanFilesAborting(branch, Tail(files))

RECURSIVE ScanFiles(_, _)
ScanFiles(branch, files) ==
  IF files = << >> THEN << >>
  ELSE LET r == ReadSnapshot(branch, Head(files))
       IN  (IF r.skip THEN << >> ELSE << r.snapshot >>)
             \o ScanFiles(branch, Tail(files))


IsDirectory(e) == e.isDir

IsJsonFile(f) == EndsWith(f.name, DotJson)

RECURSIVE ScanDates(_, _)
ScanDates(branch, dates) ==
  IF dates = << >> THEN << >>
  ELSE ScanFiles(branch, SelectSeq(Head(dates).files, IsJsonFile))
         \o ScanDates(branch, Tail(dates))

RECURSIVE ScanBranches(_)
ScanBranches(branches) ==
  IF branches = << >> THEN << >>
  ELSE ScanDates(Head(branches).name, SelectSeq(Head(branches).entries, IsDirectory))
         \o ScanBranches(Tail(branches))

\* the snapshots array before it is sorted
ScanStore(st) ==
  IF ~st.exists THEN << >> ELSE ScanBranches(SelectSeq(st.entries, IsDirectory))

\* the timestamp as localeCompare's argument sees it
AsString(ts) == IF ts.t = "number" THEN NumberToString(ts.n) ELSE ts.s

\* (a, b) => b.timestamp.localeCompare(a.timestamp)
CompareSnapshots(a, b) == localeCompare(AsString(b.timestamp), AsString(a.timestamp))

\* Array.prototype.sort is stable: x goes before the first element that the
\* comparator puts after it
RECURSIVE InsertSorted(_, _)
InsertSorted(sorted, x) ==
  IF sorted = << >> THEN << x >>
  ELSE IF CompareSnapshots(Head(sorted), x) > 0 THEN << x >> \o sorted
  ELSE << Head(sorted) >> \o InsertSorted(Tail(sorted), x)

RECURSIVE SortSnapshots(_)
SortSnapshots(xs) ==
  IF xs = << >> THEN << >>
  ELSE InsertSorted(SortSnapshots(SubSeq(xs, 1, Len(xs) - 1)), xs[Len(xs)])

\* Array.prototype.slice(0, n)
Slice(xs, n) == SubSeq(xs, 1, IF n < Len(xs) THEN n ELSE Len(xs))

HasLocaleCompare(s) == s.timestamp.t = "string"

\* The outcomes of loadRecentSnapshots(repoRoot, limit).  A timestamp that
\* is no string has no localeCompare: the comparator throws when it gets
\* such a snapshot as b.  Which pairs the sort compares is up to the
\* engine: with two or more snapshots and none a string it throws, with
\* some a string it may or may not.
loadRecentSnapshots(st, lim) ==
  LET scanned  == ScanStore(st)
      bad      == { i \in 1..Len(scanned) : ~HasLocaleCompare(scanned[i]) }
      returned == [threw |-> FALSE, value |-> Slice(SortSnapshots(scanned), lim)]
  IN  IF Len(scanned) < 2 \/ bad = {} THEN { returned }
      ELSE IF Cardinality(bad) = Len(scanned) THEN { [threw |-> TRUE] }
      ELSE { returned, [threw |-> TRUE] }

---------------------------------------------------------------------------
(* tokenize *)

Lower == << "a", "b", "c", "d", "e", "f", "g", "h", "i", "j", "k", "l", "m",
            "n", "o", "p", "q", "r", "s", "t", "u", "v", "w", "x", "y", "z" >>

Upper == << "A", "B", "C", "D", "E", "F", "G", "H", "I", "J", "K", "L", "M",
            "N", "O", "P", "Q", "R", "S", "T", "U", "V", "W", "X", "Y", "Z" >>

Range(f) == { f[i] : i \in DOMAIN f }

\* [a-z0-9_] under the i flag
IsWordChar(c) == c \in Range(Lower) \cup Range(Upper) \cup Range(Digit) \cup {"_"}

\* =>|==|!=|<=|>=|&&|\|\|
TwoCharOperators ==
  { << "=", ">" >>, << "=", "=" >>, << "!", "=" >>, << "<", "=" >>,
    << ">", "=" >>, << "&", "&" >>, << "|", "|" >> }

\* [\{\}\(\)\[\],.;]
IsPunctuation(c) == c \in { "{", "}", "(", ")", "[", "]", ",", ".", ";" }

ToLowerChar(c) ==
  IF c \in Range(Upper) THEN Lower[CHOOSE i \in 1..Len(Upper) : Upper[i] = c] ELSE c

ToLowerCase(s) == [i \in 1..Len(s) |-> ToLowerChar(s[i])]

\* the length of the longest run of word characters at the head of s
RECURSIVE WordRun(_)
WordRun(s) == IF s # << >> /\ IsWordChar(Head(s)) THEN 1 + WordRun(Tail(s)) ELSE 0

\* text.match(TOKEN_REGEX): the matches from left to right, the
\* alternatives tried in the order of the pattern
RECURSIVE Matches(_)
Matches(s) ==
  IF s = << >> THEN << >>
  ELSE IF IsWordChar(Head(s))
  THEN LET n == WordRun(s) IN << SubSeq(s, 1, n) >> \o Matches(Substring(s, n))
  ELSE IF Len(s) >= 2 /\ SubSeq(s, 1, 2) \in TwoCharOperators
  THEN << SubSeq(s, 1, 2) >> \o Matches(Substring(s, 2))
  ELSE IF IsPunctuation(Head(s))
  THEN << << Head(s) >> >> \o Matches(Tail(s))
  ELSE Matches(Tail(s))

tokenize(text) ==
  IF text = << >> THEN << >>
  ELSE LET matches == Matches(text)
       IN  [i \in 1..Len(matches) |-> ToLowerCase(matches[i])]

---------------------------------------------------------------------------
(* buildVocabulary: tokenIndex is the sequence of the tokens in insertion  *)
(* order, the index of a token its position minus one.                     *)

IndexOf(xs, x) == CHOOSE i \in 1..Len(xs) : xs[i] = x

Contains(xs, x) == \E i \in 1..Len(xs) : xs[i] = x

\* new Set(array): the distinct elements in first-seen order
Distinct(xs) ==
  LET IsFirst(i) == \A j \in 1..(i - 1) : xs[j] # xs[i]
      firsts == SelectSeq([i \in 1..Len(xs) |-> i], IsFirst)
  IN  [k \in 1..Len(firsts) |-> xs[firsts[k]]]

\* the body of tokens.forEach
VocabularyToken(v, token) ==
  LET added == IF Contains(v.tokenIndex, token) THEN v
               ELSE [tokenIndex |-> Append(v.tokenIndex, token),
                     docFreq |-> Append(v.docFreq, 0)]
      index == IndexOf(added.tokenIndex, token)
  IN  [added EXCEPT !.docFreq[index] = @ + 1]

\* tokens.forEach over the first n tokens
RECURSIVE VocabularyTokens(_, _, _)
VocabularyTokens(v, tokens, n) ==
  IF n = 0 THEN v
  ELSE VocabularyToken(VocabularyTokens(v, tokens, n - 1), tokens[n])

\* the body of documents.forEach without `new Set`: every occurrence of a
\* token counts
VocabularyDocumentAllTokens(v, doc) ==
  VocabularyTokens(v, tokenize(doc), Len(tokenize(doc)))

\* the body of documents.forEach
VocabularyDocument(v, doc) ==
  LET tokens == Distinct(tokenize(doc))
  IN  VocabularyTokens(v, tokens, Len(tokens))

\* documents.forEach over the first n documents
RECURSIVE VocabularyDocuments(_, _)
VocabularyDocuments(documents, n) ==
  IF n = 0 THEN [tokenIndex |-> << >>, docFreq |-> << >>]
  ELSE VocabularyDocument(VocabularyDocuments(documents, n - 1), documents[n])

\* lines 59-63: the vocabulary returned
VocabularyOf(v, documents) ==
  [tokenIndex |-> v.tokenIndex, docFreq |-> v.docFreq, docCount |-> Len(documents)]

buildVocabulary(documents) ==
  VocabularyOf(VocabularyDocuments(documents, Len(documents)), documents)

---------------------------------------------------------------------------
(* vectorize and cosineSimilarity.  A weight is a fixed-point number with  *)
(* WeightScale units to 1, a similarity one with SimScale units to 1 (the  *)
(* source computes both in double precision).                              *)

WeightScale == 1000

SimScale == 100

\* Math.log of 1..40, in units of 1 / WeightScale
LnTable ==
  << 0, 693, 1099, 1386, 1609, 1792, 1946, 2079, 2197, 2303,
     2398, 2485, 2565, 2639, 2708, 2773, 2833, 2890, 2944, 2996,
     3045, 3091, 3135, 3178, 3219, 3258, 3296, 3332, 3367, 3401,
     3434, 3466, 3497, 3526, 3555, 3584, 3611, 3638, 3664, 3689 >>

\* Math.log(p / q)
LogRatio(p, q) == LnTable[p] - LnTable[q]

\* vectorize with `return []` for a text without tokens
vectorizeEmptyForNoTokens(text, voc) ==
  LET vocabSize == Len(voc.tokenIndex)
      tokens    == tokenize(text)
      count(index) ==
        Cardinality({ i \in 1..Len(tokens) : tokens[i] = voc.tokenIndex[index] })
      idf(index) == LogRatio(voc.docCount + 1, voc.docFreq[index] + 1) + WeightScale
  IN  IF vocabSize = 0 \/ voc.docCount = 0 \/ Len(tokens) = 0 THEN << >>
      ELSE [i \in 1..vocabSize |->
              IF count(i) = 0 THEN 0 ELSE (count(i) * idf(i)) \div Len(tokens)]

vectorize(text, voc) ==
  LET vocabSize == Len(voc.tokenIndex)
      tokens    == tokenize(text)
      count(index) ==
        Cardinality({ i \in 1..Len(tokens) : tokens[i] = voc.tokenIndex[index] })
      idf(index) == LogRatio(voc.docCount + 1, voc.docFreq[index] + 1) + WeightScale
  IN  IF vocabSize = 0 \/ voc.docCount = 0 THEN << >>
      ELSE IF Len(tokens) = 0 THEN [i \in 1..vocabSize |-> 0]
      ELSE [i \in 1..vocabSize |->
              IF count(i) = 0 THEN 0 ELSE (count(i) * idf(i)) \div Len(tokens)]

RECURSIVE SqrtBetween(_, _, _)
SqrtBetween(n, lo, hi) ==
  IF lo >= hi THEN lo
  ELSE LET mid == (lo + hi + 1) \div 2
       IN  IF mid * mid <= n THEN SqrtBetween(n, mid, hi)
           ELSE SqrtBetween(n, lo, mid - 1)

\* Math.sqrt, rounded down
Sqrt(n) == SqrtBetween(n, 0, IF n < 46340 THEN n ELSE 46340)

Max(a, b) == IF a >= b THEN a ELSE b

PadTo(v, n) == [i \in 1..n |-> IF i <= Len(v) THEN v[i] ELSE 0]

RECURSIVE SumProducts(_, _, _)
SumProducts(v, w, i) ==
  IF i = 0 THEN 0 ELSE v[i] * w[i] + SumProducts(v, w, i - 1)

cosineSimilarity(vec1, vec2) ==
  LET maxLen     == Max(Len(vec1), Len(vec2))
      v1         == PadTo(vec1, maxLen)
      v2         == PadTo(vec2, maxLen)
      dotProduct == SumProducts(v1, v2, maxLen)
      norm1      == SumProducts(v1, v1, maxLen)
      norm2      == SumProducts(v2, v2, maxLen)
  IN  IF norm1 = 0 \/ norm2 = 0 THEN 0
      ELSE (dotProduct * SimScale) \div (Sqrt(norm1) * Sqrt(norm2))

---------------------------------------------------------------------------
(* cosineSimilarity in the arithmetic of the program: a JavaScript number  *)
(* is an IEEE 754 binary64, every operation rounds to the nearest double   *)
(* and ties go to the even mantissa. cosineSimilarity above works in units *)
(* of 1 / SimScale with roots rounded down, enough to compare with the     *)
(* threshold; the values the function returns need the rounding itself.    *)
(* The vectors here hold integers, whose products and sums are exact.      *)

\* a natural number is a tuple of limbs of LimbBits bits, lowest first
LimbBits == 13

LimbBase == 2 ^ LimbBits

\* bits of the mantissa of a double
MantissaBits == 53

BigZero == << 0, 0, 0, 0, 0, 0, 0, 0, 0 >>

Limbs == DOMAIN BigZero

\* a number below 2^31 as limbs
Big(n) ==
  << n % LimbBase, (n \div LimbBase) % LimbBase, n \div (LimbBase * LimbBase),
     0, 0, 0, 0, 0, 0 >>

\* the function f over the limbs as a tuple
Strict(f) == << f[1], f[2], f[3], f[4], f[5], f[6], f[7], f[8], f[9] >>

BigPow2(k) ==
  Strict([i \in Limbs |-> IF i = (k \div LimbBits) + 1 THEN 2 ^ (k % LimbBits) ELSE 0])

\* the limbs of the number with the columns cols from k on and c carried in
RECURSIVE CarryFrom(_, _, _)
CarryFrom(cols, k, c) ==
  IF k > Len(cols) THEN << >>
  ELSE << (cols[k] + c) % LimbBase >>
         \o CarryFrom(cols, k + 1, (cols[k] + c) \div LimbBase)

Carry(cols) == CarryFrom(cols, 1, 0)

RECURSIVE Column(_, _, _, _)
Column(a, b, k, i) ==
  IF i = 0 THEN 0 ELSE a[i] * b[k + 1 - i] + Column(a, b, k, i - 1)

BigMul(a, b) == Carry(Strict([k \in Limbs |-> Column(a, b, k, k)]))

RECURSIVE LeqFrom(_, _, _)
LeqFrom(a, b, i) ==
  IF i = 0 THEN TRUE
  ELSE IF a[i] = b[i] THEN LeqFrom(a, b, i - 1) ELSE a[i] < b[i]

BigLeq(a, b) == LeqFrom(a, b, Len(a))

BigBitLen(a) ==
  IF a = BigZero THEN 0
  ELSE LET top == CHOOSE i \in Limbs : a[i] # 0 /\ \A j \in Limbs : a[j] # 0 => j <= i
       IN  LimbBits * (top - 1)
             + (CHOOSE k \in 1..LimbBits : 2 ^ (k - 1) <= a[top] /\ a[top] < 2 ^ k)

BigSetBit(a, b) == [a EXCEPT ![(b \div LimbBits) + 1] = @ + 2 ^ (b % LimbBits)]

BigDouble(a) == Carry(Strict([i \in Limbs |-> 2 * a[i]]))

BigSucc(a) == Carry([a EXCEPT ![1] = @ + 1])

BigOdd(a) == a[1] % 2 = 1

\* cand when cand * d <= n, else q
QuotientPick(n, d, q, cand) == IF BigLeq(BigMul(cand, d), n) THEN cand ELSE q

\* the largest q' with q' * d <= n that extends q by the bits hi down to lo;
\* the upper half of the bits is settled before the lower half starts
RECURSIVE QuotientBits(_, _, _, _, _)
QuotientRest(n, d, q, hi, lo) ==
  IF q[1] >= 0 THEN QuotientBits(n, d, q, hi, lo) ELSE q

QuotientBits(n, d, q, hi, lo) ==
  IF hi = lo THEN QuotientPick(n, d, q, BigSetBit(q, hi))
  ELSE QuotientRest(n, d, QuotientBits(n, d, q, hi, (hi + lo) \div 2 + 1),
                    (hi + lo) \div 2, lo)

RootPick(t, r, cand) == IF BigLeq(BigMul(cand, cand), t) THEN cand ELSE r

\* the largest r' with r' * r' <= t that extends r by the bits hi down to lo
RECURSIVE RootBits(_, _, _, _)
RootRest(t, r, hi, lo) ==
  IF r[1] >= 0 THEN RootBits(t, r, hi, lo) ELSE r

RootBits(t, r, hi, lo) ==
  IF hi = lo THEN RootPick(t, r, BigSetBit(r, hi))
  ELSE RootRest(t, RootBits(t, r, hi, (hi + lo) \div 2 + 1), (hi + lo) \div 2, lo)

\* a mantissa rounded up may reach 2^53
Renormalized(m, e) ==
  IF m = BigPow2(MantissaBits) THEN [m |-> BigPow2(MantissaBits - 1), e |-> e + 1]
  ELSE [m |-> m, e |-> e]

\* q or q + 1: the one nearest to n / d, the even one when n / d is half way
RoundedEven(twice, mid, q) ==
  IF (IF twice = mid THEN BigOdd(q) ELSE ~BigLeq(twice, mid)) THEN BigSucc(q) ELSE q

RoundedQuotient(n, d, q, e) ==
  Renormalized(RoundedEven(BigDouble(n), BigMul(BigSucc(BigDouble(q)), d), q), e)

\* n / (d * 2^e) when it lies in [2^52, 2^53)
ScaledQuotient(n, d, e) ==
  RoundedQuotient(n, d, QuotientBits(n, d, BigZero, MantissaBits - 1, 0), e)

\* n / (d * 2^e) when it lies in [2^52, 2^54)
WideQuotient(n, d, e) ==
  IF BigLeq(BigMul(d, BigPow2(MantissaBits)), n) THEN ScaledQuotient(n, BigDouble(d), e + 1)
  ELSE ScaledQuotient(n, d, e)

ShiftedQuotient(n, d, e) ==
  WideQuotient(IF e < 0 THEN BigMul(n, BigPow2(-e)) ELSE n,
               IF e > 0 THEN BigMul(d, BigPow2(e)) ELSE d, e)

\* n / d rounded to nearest, ties to even: [m, e] stands for m * 2^e
RoundQuotient(n, d) ==
  IF n = BigZero THEN [m |-> BigZero, e |-> 0]
  ELSE ShiftedQuotient(n, d, BigBitLen(n) - BigBitLen(d) - MantissaBits)

\* r or r + 1: the one nearest to the root of t (never half way)
RoundedRoot(t, r, odd, e) ==
  Renormalized(IF ~BigLeq(BigMul(Big(4), t), BigMul(odd, odd)) THEN BigSucc(r) ELSE r, e)

RootOdd(t, r, e) == RoundedRoot(t, r, BigSucc(BigDouble(r)), e)

ScaledRoot(t, e) == RootOdd(t, RootBits(t, BigZero, MantissaBits - 1, 0), e)

RootAt(n, k) ==
  ScaledRoot(BigMul(Big(n), BigPow2(2 * (MantissaBits - 1 - k))), k - (MantissaBits - 1))

\* the root of a positive integer below 2^31, rounded to nearest
RoundRoot(n) == RootAt(n, (BigBitLen(Big(n)) - 1) \div 2)

\* a double: a number (-1)^neg * m * 2^e with m = 0 or 2^52 <= m < 2^53,
\* or Infinity, or NaN
DoubleZero == [kind |-> "number", neg |-> FALSE, m |-> BigZero, e |-> 0]

DoubleOne ==
  [kind |-> "number", neg |-> FALSE, m |-> BigPow2(MantissaBits - 1), e |-> 1 - MantissaBits]

DoubleNaN == [kind |-> "NaN", neg |-> FALSE, m |-> BigZero, e |-> 0]

DoubleInfinity(neg) == [kind |-> "Infinity", neg |-> neg, m |-> BigZero, e |-> 0]

Scaled(x, neg, e) == [kind |-> "number", neg |-> neg, m |-> x.m, e |-> x.e + e]

\* the double nearest to n / d, for integers n and d > 0
DoubleOf(n, d) ==
  IF n = 0 THEN DoubleZero
  ELSE Scaled(RoundQuotient(Big(IF n < 0 THEN -n ELSE n), Big(d)), n < 0, 0)

\* x * y for doubles x, y >= 0
DoubleTimes(x, y) ==
  IF x.m = BigZero \/ y.m = BigZero THEN DoubleZero
  ELSE Scaled(RoundQuotient(BigMul(x.m, y.m), Big(1)), FALSE, x.e + y.e)

\* n / y for an integer n and a double y >= 0
DoubleDivide(n, y) ==
  IF y.m = BigZero THEN (IF n = 0 THEN DoubleNaN ELSE DoubleInfinity(n < 0))
  ELSE IF n = 0 THEN DoubleZero
  ELSE Scaled(RoundQuotient(Big(IF n < 0 THEN -n ELSE n), y.m), n < 0, -y.e)

\* Math.sqrt of an integer n >= 0
DoubleSqrt(n) == IF n = 0 THEN DoubleZero ELSE Scaled(RoundRoot(n), FALSE, 0)

\* |x| <= |y|
MagnitudeLeq(x, y) ==
  IF x.m = BigZero THEN TRUE
  ELSE IF y.m = BigZero THEN FALSE
  ELSE IF x.e # y.e THEN x.e < y.e
  ELSE BigLeq(x.m, y.m)

\* x <= y for numbers (false when either is NaN)
DoubleLeq(x, y) ==
  IF x.kind # "number" \/ y.kind # "number" THEN FALSE
  ELSE IF x.m = BigZero /\ y.m = BigZero THEN TRUE
  ELSE IF x.neg /\ ~y.neg THEN TRUE
  ELSE IF ~x.neg /\ y.neg THEN FALSE
  ELSE IF x.neg THEN MagnitudeLeq(y, x)
  ELSE MagnitudeLeq(x, y)

\* cosineSimilarity without `if (norm1 === 0 || norm2 === 0) return 0`
cosineSimilarityDoubleUnguarded(vec1, vec2) ==
  LET maxLen     == Max(Len(vec1), Len(vec2))
      v1         == PadTo(vec1, maxLen)
      v2         == PadTo(vec2, maxLen)
      dotProduct == SumProducts(v1, v2, maxLen)
      norm1      == SumProducts(v1, v1, maxLen)
      norm2      == SumProducts(v2, v2, maxLen)
  IN  DoubleDivide(dotProduct, DoubleTimes(DoubleSqrt(norm1), DoubleSqrt(norm2)))

\* cosineSimilarity with norm2 summed over v1
cosineSimilarityDoubleOneNorm(vec1, vec2) ==
  LET maxLen     == Max(Len(vec1), Len(vec2))
      v1         == PadTo(vec1, maxLen)
      v2         == PadTo(vec2, maxLen)
      dotProduct == SumProducts(v1, v2, maxLen)
      norm1      == SumProducts(v1, v1, maxLen)
      norm2      == SumProducts(v1, v1, maxLen)
  IN  IF norm1 = 0 \/ norm2 = 0 THEN DoubleZero
      ELSE DoubleDivide(dotProduct, DoubleTimes(DoubleSqrt(norm1), DoubleSqrt(norm2)))

\* cosineSimilarity(vec1, vec2) on vectors of integers
cosineSimilarityDouble(vec1, vec2) ==
  LET maxLen     == Max(Len(vec1), Len(vec2))
      v1         == PadTo(vec1, maxLen)
      v2         == PadTo(vec2, maxLen)
      dotProduct == SumProducts(v1, v2, maxLen)
      norm1      == SumProducts(v1, v1, maxLen)
      norm2      == SumProducts(v2, v2, maxLen)
  IN  IF norm1 = 0 \/ norm2 = 0 THEN DoubleZero
      ELSE DoubleDivide(dotProduct, DoubleTimes(DoubleSqrt(norm1), DoubleSqrt(norm2)))

---------------------------------------------------------------------------
(* attributeChanges *)

DefaultThreshold == 85

\* lines 224-229: the additions of one change that are kept, trimmed
RECURSIVE KeptAdditions(_)
KeptAdditions(additions) ==
  IF additions = << >> THEN << >>
  ELSE (IF isSkippableLine(Head(additions)) THEN << >>
        ELSE << Trim(Head(additions)) >>) \o KeptAdditions(Tail(additions))

\* lines 223-230: `for (const addition of change.additions)` throws when
\* the change has no additions array
RECURSIVE ChangesSegments(_)
ChangesSegments(changes) ==
  IF changes = << >> THEN [threw |-> FALSE, value |-> << >>]
  ELSE IF Head(changes).additions.t # "array" THEN [threw |-> TRUE]
  ELSE LET rest == ChangesSegments(Tail(changes))
       IN  IF rest.threw THEN rest
           ELSE [threw |-> FALSE,
                 value |-> KeptAdditions(Head(changes).additions.items) \o rest.value]

\* lines 221-231: `for (const change of snapshot.changes)` throws when
\* changes is not iterable
RECURSIVE SnapshotsSegments(_)
SnapshotsSegments(snaps) ==
  IF snaps = << >> THEN [threw |-> FALSE, value |-> << >>]
  ELSE IF Head(snaps).changes.t # "array" THEN [threw |-> TRUE]
  ELSE LET first == ChangesSegments(Head(snaps).changes.items)
           rest  == IF first.threw THEN first ELSE SnapshotsSegments(Tail(snaps))
       IN  IF first.threw \/ rest.threw THEN [threw |-> TRUE]
           ELSE [threw |-> FALSE, value |-> first.value \o rest.value]

\* lines 235-241: the lines of one file of the diff that are kept
RECURSIVE KeptLines(_)
KeptLines(additions) ==
  IF additions = << >> THEN << >>
  ELSE LET line == Trim(Head(additions))
       IN  (IF isSkippableLine(line) THEN << >> ELSE << line >>)
             \o KeptLines(Tail(additions))

\* lines 233-242
RECURSIVE CurrentSegments(_)
CurrentSegments(diffMap) ==
  IF diffMap = << >> THEN << >>
  ELSE KeptLines(Head(diffMap).lines) \o CurrentSegments(Tail(diffMap))

\* lines 258-266 with `maxSimilarity = similarity` and no break: the last
\* vector decides
RECURSIVE ScanSimilarityLastWins(_, _, _, _)
ScanSimilarityLastWins(currentVector, vectors, threshold, maxSimilarity) ==
  IF vectors = << >> THEN maxSimilarity
  ELSE ScanSimilarityLastWins(currentVector, Tail(vectors), threshold,
                              cosineSimilarity(currentVector, Head(vectors).vector))

\* lines 258-266 with the break taken after the first vector whatever its
\* similarity
ScanSimilarityFirstOnly(currentVector, vectors, threshold, maxSimilarity) ==
  IF vectors = << >> THEN maxSimilarity
  ELSE Max(maxSimilarity, cosineSimilarity(currentVector, Head(vectors).vector))

\* lines 258-266: the scan of the snapshot vectors, with its early exit
RECURSIVE ScanSimilarity(_, _, _, _)
ScanSimilarity(currentVector, vectors, threshold, maxSimilarity) ==
  IF vectors = << >> THEN maxSimilarity
  ELSE LET similarity == cosineSimilarity(currentVector, Head(vectors).vector)
           newMax     == Max(maxSimilarity, similarity)
       IN  IF similarity >= threshold THEN newMax
           ELSE ScanSimilarity(currentVector, Tail(vectors), threshold, newMax)

\* lines 255-270: whether the line counts as AI-generated
IsAiLine(line, voc, vectors, threshold) ==
  ScanSimilarity(vectorize(line, voc), vectors, threshold, 0) >= threshold

\* line 273 without its guard: 0 / 0
AiPercentageUnguarded(total, ai) == [num |-> ai * 100, den |-> total]

\* line 273: a percentage is the exact fraction num / den
AiPercentage(total, ai) ==
  IF total > 0 THEN [num |-> ai * 100, den |-> total] ELSE [num |-> 0, den |-> 1]

\* aiPercentage > 10
Exceeds(p, n) == p.num > n * p.den

CoAuthorPercent == 10

\* line 274 with >= for >
NeedsCoAuthorAtLeast(p) == p.num >= CoAuthorPercent * p.den

\* line 274
NeedsCoAuthor(p) == Exceeds(p, CoAuthorPercent)

\* lines 273-281
MakeResult(total, ai) ==
  [totalLines |-> total, aiGeneratedLines |-> ai,
   aiPercentage |-> AiPercentage(total, ai),
   needsCoAuthor |-> NeedsCoAuthor(AiPercentage(total, ai))]

---------------------------------------------------------------------------
(* generateCommitMessage: the message is a sequence of parts, the first    *)
(* the [type, scope, description, summary] of the template string.         *)

Includes(s, sub) ==
  \E i \in 1..(Len(s) - Len(sub) + 1) : SubSeq(s, i, i + Len(sub) - 1) = sub

IsNonBlank(l) == Trim(l) # << >>


generateCommitMessage(out) ==
  IF ~out.ok THEN [type |-> "chore", scope |-> "", description |-> "update files",
                   summary |-> << >>]
  ELSE
  LET lines == SelectSeq(Split(out.text, "\n"), IsNonBlank)
      IsModified(l) == StartsWith(l, << " ", "M" >>)
      IsAdded(l)    == StartsWith(l, << "A" >>) \/ StartsWith(l, << "?", "?" >>)
      IsDeleted(l)  == StartsWith(l, << " ", "D" >>)
      modified == Len(SelectSeq(lines, IsModified))
      added    == Len(SelectSeq(lines, IsAdded))
      deleted  == Len(SelectSeq(lines, IsDeleted))
      filePatterns == [i \in 1..Len(lines) |-> Substring(lines[i], 3)]
      Some(P(_)) == \E i \in 1..Len(filePatterns) : P(filePatterns[i])
      IsDeps(f) == Includes(f, << "p", "a", "c", "k", "a", "g", "e", ".", "j", "s", "o", "n" >>) \/ Includes(f, << "p", "a", "c", "k", "a", "g", "e", "-", "l", "o", "c", "k", ".", "j", "s", "o", "n" >>)
      IsDocs(f) == Includes(f, << ".", "m", "d" >>)
      IsTest(f) == Includes(f, << "t", "e", "s", "t" >>) \/ Includes(f, << "s", "p", "e", "c" >>)
      summary ==
        (IF modified > 0 THEN << [n |-> modified, what |-> "modified"] >> ELSE << >>)
        \o (IF added > 0 THEN << [n |-> added, what |-> "added"] >> ELSE << >>)
        \o (IF deleted > 0 THEN << [n |-> deleted, what |-> "deleted"] >> ELSE << >>)
  IN  IF Some(IsDeps)
      THEN [type |-> "chore", scope |-> "deps",
            description |-> "update dependencies", summary |-> summary]
      ELSE IF Some(IsDocs)
      THEN [type |-> "docs", scope |-> "",
            description |-> "update documentation", summary |-> summary]
      ELSE IF Some(IsTest)
      THEN [type |-> "test", scope |-> "",
            description |-> "update tests", summary |-> summary]
      ELSE IF added > modified
      THEN [type |-> "feat", scope |-> "",
            description |-> "add new features", summary |-> summary]
      ELSE IF modified > 0
      THEN [type |-> "fix", scope |-> "",
            description |-> "update implementation", summary |-> summary]
      ELSE [type |-> "chore", scope |-> "", description |-> "", summary |-> summary]

\* lines 377-380
AiGeneratedPart(r) ==
  IF r.totalLines > 0
  THEN << [part |-> "AI-Generated", ai |-> r.aiGeneratedLines, total |-> r.totalLines] >>
  ELSE << >>

CoAuthorTrailer == [part |-> "Co-authored-by"]

\* lines 382-386
CoAuthorPart(r) == IF r.needsCoAuthor THEN << CoAuthorTrailer >> ELSE << >>

\* lines 374-386
BuildCommitMessage(out, r) ==
  << [part |-> "head", head |-> generateCommitMessage(out)] >>
    \o AiGeneratedPart(r) \o CoAuthorPart(r)

---------------------------------------------------------------------------
(* The inputs: snapshot stores, clocks, diffs and status listings *)

RetentionHours == 4

Absent == [t |-> "absent"]

Str(s) == [t |-> "string", s |-> s]

Num(n) == [t |-> "number", n |-> n]

Arr(items) == [t |-> "array", items |-> items]

\* a timestamp as the editor integration writes it, and a file name
IsoStamp(h) == << "2", "5", "T" >> \o Pad2(h)

FileName(h) == << "c" >> \o Pad2(h) \o DotJson

DigitValue(c) == (CHOOSE i \in 1..Len(Digit) : Digit[i] = c) - 1

\* the instant (in hours) a snapshot's timestamp stands for
InstantOf(ts) ==
  IF ts.t = "number" THEN ts.n
  ELSE IF StartsWith(ts.s, << "2", "5", "T" >>)
  THEN 10 * DigitValue(ts.s[4]) + DigitValue(ts.s[5])
  ELSE 10 * DigitValue(ts.s[2]) + DigitValue(ts.s[3])

Change(additions) ==
  [file |-> << "f", ".", "t", "s" >>, additions |-> additions, deletions |-> Arr(<< >>)]

Object(timestamp, changes) ==
  [json |-> "object", timestamp |-> timestamp, changes |-> changes]

File(name, readable, content) ==
  [name |-> name, readable |-> readable, content |-> content]

LineA == << "a", ";" >>
LineB == << "b", ".", "c" >>
LineComment == << "/", "/", " ", "y", ";" >>
LineStar == << " ", "*", " ", "y", ";" >>
LineBlank == << " ", " " >>
\* a line that is kept and has no token
LineNoToken == << "#" >>

GoodFile(h, lines) == File(FileName(h), TRUE, Object(Str(IsoStamp(h)), Arr(<< Change(Arr(lines)) >>)))

NoTimestampFile(h, lines) == File(FileName(h), TRUE, Object(Absent, Arr(<< Change(Arr(lines)) >>)))

UnreadableFile(h) == File(FileName(h), FALSE, [json |-> "invalid"])

InvalidJsonFile(h) == File(FileName(h), TRUE, [json |-> "invalid"])

NullJsonFile(h) == File(FileName(h), TRUE, [json |-> "null"])

NumberTimestampFile(h) == File(FileName(h), TRUE, Object(Num(h), Arr(<< Change(Arr(<< LineA >>)) >>)))

NoAdditionsFile(h) == File(FileName(h), TRUE, Object(Str(IsoStamp(h)), Arr(<< Change(Absent) >>)))

NoChangesFile(h) == File(FileName(h), TRUE, Object(Str(IsoStamp(h)), Absent))

ChangesNotIterableFile(h) == File(FileName(h), TRUE, Object(Str(IsoStamp(h)), Num(1)))

DiffFile(h) == File(<< "c" >> \o Pad2(h) \o << ".", "d", "i", "f", "f" >>, TRUE, [json |-> "invalid"])

StampHours == {2, 6, 8}

FileEntries ==
  { GoodFile(h, << LineA >>) : h \in StampHours }
    \cup { NoTimestampFile(h, << LineB >>) : h \in {2, 6} }
    \cup { UnreadableFile(6), InvalidJsonFile(6), NullJsonFile(6), NumberTimestampFile(7),
           NoAdditionsFile(8), NoChangesFile(8), ChangesNotIterableFile(8), DiffFile(8) }

StrayFile == [name |-> << "R", "E", "A", "D", "M", "E" >>, isDir |-> FALSE, entries |-> << >>, files |-> << >>]

DateDir(name, files) == [name |-> name, isDir |-> TRUE, files |-> files]

BranchDir(name, entries) == [name |-> name, isDir |-> TRUE, entries |-> entries]

\* the files of a flat listing that lie in directory k, in order
FilesAt(flat, k) ==
  LET InSlot(e) == e[1] = k
      sel == SelectSeq(flat, InSlot)
  IN  [i \in 1..Len(sel) |-> sel[i][2]]

\* the tree with branches main (two dates) and dev (one date) and stray
\* plain files beside the directories
Tree(flat) ==
  [exists |-> TRUE,
   entries |-> << BranchDir("main", << DateDir(<< "d", "1" >>, FilesAt(flat, 1)), StrayFile,
                                       DateDir(<< "d", "2" >>, FilesAt(flat, 2)) >>),
                  StrayFile,
                  BranchDir("dev", << DateDir(<< "d", "1" >>, FilesAt(flat, 3)) >>) >>]

MissingStore == [exists |-> FALSE]

Slots == 1..3

Flats ==
  { f \in SeqsUpTo(Slots \X FileEntries, MaxStoreFiles) :
      \A i, j \in 1..Len(f) : i < j => f[i][1] <= f[j][1] }

Stores == { MissingStore } \cup { Tree(f) : f \in Flats }

Nows == {8, 10}

Limits == {1, 2, DefaultLimit}

\* a diff is the text `git diff HEAD` prints, or the failure of the command
DiffText(lines) == [ok |-> TRUE, text |-> Join(lines, "\n")]

DiffFailed == [ok |-> FALSE]

DiffLineKinds ==
  { << "+", "+", "+", " ", "b", "/", "f", ".", "t", "s" >>, << "+", "+", "+", " ", "b", "/", "g", ".", "t", "s" >>, << "-", "-", "-", " ", "a", "/", "f", ".", "t", "s" >>, << "@", "@", " ", "-", "1", " ", "+", "1", " ", "@", "@" >>,
    << "+", "a", ";" >>, << "+", "b", ".", "c" >>, << "+", "/", "/", " ", "z", ";" >>, << "+", " ", "*", " ", "z", ";" >>, << "+", " ", " " >>, << "+", "+", "+", "i", ";" >>,
    << "-", "a", ";" >>, << " ", "a", ";" >> }

Diffs == { DiffFailed } \cup { DiffText(ls) : ls \in SeqsUpTo(DiffLineKinds, MaxDiffLines) }

Repeat(x, n) == [i \in 1..n |-> x]

\* the diffs of the whole workflow: one file with a, b and c lines of
\* three kinds, one line before the header, or the failure of the command
MainDiffs ==
  { DiffFailed, DiffText(<< << "+", "a", ";" >>, << "+", "+", "+", " ", "b", "/", "f", ".", "t", "s" >> >>),
    DiffText(<< << "+", "+", "+", " ", "b", "/", "f", ".", "t", "s" >>, << "+", "#" >>, << "+", "a", ";" >> >>) }
    \cup { DiffText(<< << "+", "+", "+", " ", "b", "/", "f", ".", "t", "s" >> >> \o Repeat(<< "+", "a", ";" >>, a) \o Repeat(<< "+", "b", ".", "c" >>, b)
                      \o Repeat(<< "+", " ", "/", "/", " ", "z", ";" >>, c)) :
             a \in 0..2, c \in 0..1, b \in 0..(MaxMainLines - 1) }

MainStores ==
  { MissingStore, Tree(<< >>),
    Tree(<< << 1, GoodFile(8, << LineA >>) >> >>),
    Tree(<< << 1, GoodFile(2, << LineA >>) >> >>),
    Tree(<< << 1, GoodFile(8, << LineComment, LineBlank, LineStar >>) >> >>),
    Tree(<< << 1, InvalidJsonFile(6) >>, << 3, GoodFile(8, << LineB >>) >> >>),
    Tree(<< << 1, GoodFile(8, << LineA, LineB >>) >> >>),
    Tree(<< << 1, GoodFile(6, << LineB >>) >>, << 3, GoodFile(8, << LineA >>) >> >>),
    Tree(<< << 1, GoodFile(8, << LineNoToken, LineA >>) >> >>),
    Tree(<< << 2, NoAdditionsFile(8) >> >>),
    Tree(<< << 1, NumberTimestampFile(7) >>, << 3, NumberTimestampFile(7) >> >>) }

StatusFailed == [ok |-> FALSE]

StatusText(lines) == [ok |-> TRUE, text |-> Join(lines, "\n")]

StatusOuts ==
  { StatusFailed, StatusText(<< >>), StatusText(<< << " ", "M", " ", "f", ".", "t", "s" >>, << >> >>),
    StatusText(<< << "?", "?", " ", "g", ".", "t", "s" >>, << " ", "M", " ", "R", "E", "A", "D", "M", "E", ".", "m", "d" >> >>) }

---------------------------------------------------------------------------
(* The state machine of main and attributeChanges *)

NoResult == [returned |-> FALSE]

EmptyVocabulary == [tokenIndex |-> << >>, docFreq |-> << >>]

\* everything attributeChanges and main compute, before they have run
Fresh ==
  /\ snapshots = << >>
  /\ currentDiff = << >>
  /\ snapshotSegments = << >>
  /\ currentSegments = << >>
  /\ vocabulary = EmptyVocabulary
  /\ snapshotVectors = << >>
  /\ docIdx = 0
  /\ lineIdx = 0
  /\ totalLines = 0
  /\ aiGeneratedLines = 0
  /\ result = NoResult
  /\ commitMessage = << >>
  /\ gitLog = << >>
  /\ exitCode = -1
  /\ callResult = DoubleZero

\* no call of cosineSimilarity on its own
NoCall == callVec1 = << >> /\ callVec2 = << >>

Init ==
  /\ pc = "start"
  /\ store \in MainStores
  /\ now = 10
  /\ diffOut \in MainDiffs
  /\ statusOut \in StatusOuts
  /\ limit = DefaultLimit
  /\ Fresh
  /\ NoCall

inputs == << store, now, diffOut, statusOut, limit >>

cosine == << callVec1, callVec2, callResult >>

attribution == << snapshots, currentDiff, snapshotSegments, currentSegments,
                  vocabulary, snapshotVectors, docIdx, lineIdx, totalLines,
                  aiGeneratedLines, result >>

\* process.exit(code), or the end of main
Exit(code) == pc' = "exited" /\ exitCode' = code

\* an exception nothing catches ends the process with code 1
Crash == pc' = "crashed" /\ exitCode' = 1

\* lines 349-363: the change check
CheckStatus ==
  /\ pc = "start"
  /\ IF ~statusOut.ok THEN Exit(1)
     ELSE IF Trim(statusOut.text) = << >> THEN Exit(0)
     ELSE pc' = "load" /\ UNCHANGED exitCode
  /\ UNCHANGED << inputs, cosine, attribution, commitMessage, gitLog >>

\* line 215
LoadSnapshots ==
  /\ pc = "load"
  /\ \E outcome \in loadRecentSnapshots(store, limit) :
       IF outcome.threw
       THEN Crash /\ UNCHANGED snapshots
       ELSE pc' = "diff" /\ snapshots' = outcome.value /\ UNCHANGED exitCode
  /\ UNCHANGED << inputs, cosine, currentDiff, snapshotSegments, currentSegments,
                  vocabulary, snapshotVectors, docIdx, lineIdx, totalLines,
                  aiGeneratedLines, result, commitMessage, gitLog >>

\* line 216
GetDiff ==
  /\ pc = "diff"
  /\ currentDiff' = getCurrentDiff(diffOut)
  /\ pc' = "segments"
  /\ UNCHANGED << inputs, cosine, snapshots, snapshotSegments, currentSegments,
                  vocabulary, snapshotVectors, docIdx, lineIdx, totalLines,
                  aiGeneratedLines, result, commitMessage, gitLog, exitCode >>

\* lines 218-242
BuildSegments ==
  /\ pc = "segments"
  /\ LET segs == SnapshotsSegments(snapshots)
     IN  IF segs.threw
         THEN Crash /\ UNCHANGED << snapshotSegments, currentSegments >>
         ELSE /\ snapshotSegments' = segs.value
              /\ currentSegments' = CurrentSegments(currentDiff)
              /\ pc' = "vocabulary"
              /\ UNCHANGED exitCode
  /\ UNCHANGED << inputs, cosine, snapshots, currentDiff, vocabulary, snapshotVectors,
                  docIdx, lineIdx, totalLines, aiGeneratedLines, result,
                  commitMessage, gitLog >>

\* line 244: the documents of the shared vocabulary
Documents == snapshotSegments \o currentSegments

\* lines 46-57: one iteration of documents.forEach in buildVocabulary
AddDocument ==
  /\ pc = "vocabulary"
  /\ docIdx < Len(Documents)
  /\ docIdx' = docIdx + 1
  /\ vocabulary' = VocabularyDocument(vocabulary, Documents[docIdx + 1])
  /\ UNCHANGED << pc, inputs, cosine, snapshots, currentDiff, snapshotSegments,
                  currentSegments, snapshotVectors, lineIdx, totalLines,
                  aiGeneratedLines, result, commitMessage, gitLog, exitCode >>

\* lines 59-63 and 245-248: the vocabulary is returned, the snapshot
\* segments are vectorized
VectorizeSnapshots ==
  /\ pc = "vocabulary"
  /\ docIdx = Len(Documents)
  /\ LET voc == VocabularyOf(vocabulary, Documents)
     IN  /\ vocabulary' = voc
         /\ snapshotVectors' =
              [i \in 1..Len(snapshotSegments) |->
                 [text |-> snapshotSegments[i],
                  vector |-> vectorize(snapshotSegments[i], voc)]]
  /\ pc' = "classify"
  /\ UNCHANGED << inputs, cosine, snapshots, currentDiff, snapshotSegments,
                  currentSegments, docIdx, lineIdx, totalLines,
                  aiGeneratedLines, result, commitMessage, gitLog, exitCode >>

\* lines 253-271 with totalLines++ moved into the `if` of line 268
ClassifyLineCountingAiOnly ==
  /\ pc = "classify"
  /\ lineIdx < Len(currentSegments)
  /\ lineIdx' = lineIdx + 1
  /\ LET ai == IsAiLine(currentSegments[lineIdx + 1], vocabulary, snapshotVectors,
                        DefaultThreshold)
     IN  /\ totalLines' = IF ai THEN totalLines + 1 ELSE totalLines
         /\ aiGeneratedLines' = IF ai THEN aiGeneratedLines + 1 ELSE aiGeneratedLines
  /\ UNCHANGED << pc, inputs, cosine, snapshots, currentDiff, snapshotSegments,
                  currentSegments, vocabulary, snapshotVectors, docIdx, result,
                  commitMessage, gitLog, exitCode >>

\* lines 253-271: one iteration of the loop over currentSegments
ClassifyLine ==
  /\ pc = "classify"
  /\ lineIdx < Len(currentSegments)
  /\ lineIdx' = lineIdx + 1
  /\ totalLines' = totalLines + 1
  /\ aiGeneratedLines' =
       IF IsAiLine(currentSegments[lineIdx + 1], vocabulary, snapshotVectors,
                   DefaultThreshold)
       THEN aiGeneratedLines + 1 ELSE aiGeneratedLines
  /\ UNCHANGED << pc, inputs, cosine, snapshots, currentDiff, snapshotSegments,
                  currentSegments, vocabulary, snapshotVectors, docIdx, result,
                  commitMessage, gitLog, exitCode >>

\* lines 273-281: the return of attributeChanges
ReturnResult ==
  /\ pc = "classify"
  /\ lineIdx = Len(currentSegments)
  /\ result' = [returned |-> TRUE] @@ MakeResult(totalLines, aiGeneratedLines)
  /\ pc' = "message"
  /\ UNCHANGED << inputs, cosine, snapshots, currentDiff, snapshotSegments,
                  currentSegments, vocabulary, snapshotVectors, docIdx, lineIdx,
                  totalLines, aiGeneratedLines, commitMessage, gitLog, exitCode >>

\* lines 374-391: git status runs again and may fail this time
ComposeMessage ==
  /\ pc = "message"
  /\ \E out \in { statusOut, StatusFailed } :
       commitMessage' = BuildCommitMessage(out, result)
  /\ pc' = "add"
  /\ UNCHANGED << inputs, cosine, attribution, gitLog, exitCode >>

\* a git command of main whose catch does not exit: the next step runs
GitStepIgnoringFailure(at, cmd, next) ==
  /\ pc = at
  /\ \E ok \in BOOLEAN :
       /\ gitLog' = Append(gitLog, [cmd |-> cmd, ok |-> ok])
       /\ IF next = "exited" THEN Exit(0) ELSE pc' = next /\ UNCHANGED exitCode
  /\ UNCHANGED << inputs, cosine, attribution, commitMessage >>

\* a git command of main: it runs, and its failure exits with code 1
GitStep(at, cmd, next) ==
  /\ pc = at
  /\ \E ok \in BOOLEAN :
       /\ gitLog' = Append(gitLog, [cmd |-> cmd, ok |-> ok])
       /\ IF ok
          THEN IF next = "exited" THEN Exit(0) ELSE pc' = next /\ UNCHANGED exitCode
          ELSE Exit(1)
  /\ UNCHANGED << inputs, cosine, attribution, commitMessage >>

\* lines 393-400
GitAdd == GitStep("add", "git add .", "commit")

\* lines 402-412
GitCommit == GitStep("commit", "git commit", "push")

\* lines 414-423
GitPush == GitStep("push", "git push", "exited")

Next ==
  \/ CheckStatus
  \/ LoadSnapshots
  \/ GetDiff
  \/ BuildSegments
  \/ AddDocument
  \/ VectorizeSnapshots
  \/ ClassifyLine
  \/ ReturnResult
  \/ ComposeMessage
  \/ GitAdd
  \/ GitCommit
  \/ GitPush

Spec == Init /\ [][Next]_vars

---------------------------------------------------------------------------
(* loadRecentSnapshots on its own: every store, clock and limit *)

InitLoad ==
  /\ pc = "load"
  /\ store \in Stores
  /\ now \in Nows
  /\ limit \in Limits
  /\ diffOut = DiffFailed
  /\ statusOut = StatusFailed
  /\ Fresh
  /\ NoCall

\* a call of loadRecentSnapshots(repoRoot, limit)
CallLoad ==
  /\ pc = "load"
  /\ \E outcome \in loadRecentSnapshots(store, limit) :
       IF outcome.threw
       THEN pc' = "loadThrew" /\ UNCHANGED snapshots
       ELSE pc' = "loadReturned" /\ snapshots' = outcome.value
  /\ UNCHANGED << inputs, cosine, currentDiff, snapshotSegments, currentSegments,
                  vocabulary, snapshotVectors, docIdx, lineIdx, totalLines,
                  aiGeneratedLines, result, commitMessage, gitLog, exitCode >>

NextLoad == CallLoad

SpecLoad == InitLoad /\ [][NextLoad]_vars

---------------------------------------------------------------------------
(* buildVocabulary and vectorize on their own: every corpus of up to       *)
(* MaxDocuments documents and every text                                   *)

\* documents: tokens repeated inside a document and across documents,
\* documents without a token
DocumentKinds == { << "a", ";" >>, << "a", ".", "a" >>, << "b", ".", "c" >>, << "#" >>, << >> }

\* texts: tokens of the corpus, a token no document has (x), no token
TextKinds == { << "a", ";" >>, << "a", ".", "a" >>, << "x", ";", "a" >>, << "#" >>, << >> }

InitVocabulary ==
  /\ pc = "build"
  /\ store = MissingStore
  /\ now = 10
  /\ limit = DefaultLimit
  /\ diffOut = DiffFailed
  /\ statusOut = StatusFailed
  /\ snapshots = << >>
  /\ currentDiff = << >>
  /\ snapshotSegments \in SeqsUpTo(DocumentKinds, MaxDocuments)
  /\ currentSegments \in { << t >> : t \in TextKinds }
  /\ vocabulary = EmptyVocabulary
  /\ snapshotVectors = << >>
  /\ docIdx = 0
  /\ lineIdx = 0
  /\ totalLines = 0
  /\ aiGeneratedLines = 0
  /\ result = NoResult
  /\ commitMessage = << >>
  /\ gitLog = << >>
  /\ exitCode = -1
  /\ callVec1 = << >>
  /\ callVec2 = << >>
  /\ callResult = DoubleZero

\* a call of buildVocabulary(documents), the documents in snapshotSegments
CallBuildVocabulary ==
  /\ pc = "build"
  /\ vocabulary' = buildVocabulary(snapshotSegments)
  /\ pc' = "built"
  /\ UNCHANGED << inputs, cosine, snapshots, currentDiff, snapshotSegments, currentSegments,
                  snapshotVectors, docIdx, lineIdx, totalLines, aiGeneratedLines,
                  result, commitMessage, gitLog, exitCode >>

\* a call of vectorize(text, vocabulary), the text in currentSegments
CallVectorize ==
  /\ pc = "built"
  /\ snapshotVectors' = << [text |-> currentSegments[1],
                            vector |-> vectorize(currentSegments[1], vocabulary)] >>
  /\ pc' = "vectorized"
  /\ UNCHANGED << inputs, cosine, snapshots, currentDiff, snapshotSegments, currentSegments,
                  vocabulary, docIdx, lineIdx, totalLines, aiGeneratedLines,
                  result, commitMessage, gitLog, exitCode >>

NextVocabulary == CallBuildVocabulary \/ CallVectorize

SpecVocabulary == InitVocabulary /\ [][NextVocabulary]_vars

---------------------------------------------------------------------------
(* cosineSimilarity on its own: every vector of up to MaxVectorLength      *)
(* entries in 0..MaxEntry, with the vectors its claims are about           *)

Vectors == UNION { [1..n -> 0..MaxEntry] : n \in 0..MaxVectorLength }

\* k * v
Scale(v, k) == [i \in 1..Len(v) |-> k * v[i]]

Zeros(n) == [i \in 1..n |-> 0]

\* a vector whose support is the complement of the support of v
Complement(v) == [i \in 1..Len(v) |-> IF v[i] = 0 THEN 1 ELSE 0]

Reversed(v) == [i \in 1..Len(v) |-> v[Len(v) + 1 - i]]

\* v with every second entry negated
Alternating(v) == [i \in 1..Len(v) |-> IF i % 2 = 0 THEN -v[i] ELSE v[i]]

\* the vectors v is compared with: its multiples (positive, zero, negative),
\* vectors of a disjoint support, of another length, zero vectors of every
\* length, and vectors in no relation to v
Partners(v) ==
  { Scale(v, k) : k \in (-MaxScale)..MaxScale }
    \cup { Complement(v), Zeros(Len(v)) \o v, Reversed(v), Alternating(v),
           SubSeq(v, 1, Len(v) - 1) }
    \cup { Zeros(n) : n \in 0..MaxVectorLength }

InitCosine ==
  /\ pc = "cosine"
  /\ store = MissingStore
  /\ now = 10
  /\ limit = DefaultLimit
  /\ diffOut = DiffFailed
  /\ statusOut = StatusFailed
  /\ Fresh
  /\ callVec1 \in Vectors
  /\ callVec2 \in Partners(callVec1)

\* a call of cosineSimilarity(vec1, vec2)
CallCosineSimilarity ==
  /\ pc = "cosine"
  /\ callResult' = cosineSimilarityDouble(callVec1, callVec2)
  /\ pc' = "compared"
  /\ UNCHANGED << inputs, attribution, commitMessage, gitLog, exitCode, callVec1, callVec2 >>

NextCosine == CallCosineSimilarity

SpecCosine == InitCosine /\ [][NextCosine]_vars

---------------------------------------------------------------------------
(* getCurrentDiff on its own: every diff of up to MaxDiffLines lines *)

InitDiff ==
  /\ pc = "diff"
  /\ store = MissingStore
  /\ now = 10
  /\ limit = DefaultLimit
  /\ diffOut \in Diffs
  /\ statusOut = StatusFailed
  /\ Fresh
  /\ NoCall

\* a call of getCurrentDiff(repoRoot)
CallDiff ==
  /\ pc = "diff"
  /\ currentDiff' = getCurrentDiff(diffOut)
  /\ pc' = "diffReturned"
  /\ UNCHANGED << inputs, cosine, snapshots, snapshotSegments, currentSegments,
                  vocabulary, snapshotVectors, docIdx, lineIdx, totalLines,
                  aiGeneratedLines, result, commitMessage, gitLog, exitCode >>

NextDiff == CallDiff

SpecDiff == InitDiff /\ [][NextDiff]_vars

---------------------------------------------------------------------------
(* Notions the claims are stated with *)

\* a snapshot whose instant lies in the retention window that ends now
InWindow(s) == InstantOf(s.timestamp) >= now - RetentionHours

\* the claims' own reading of a line that is not classifiable: empty after
\* trimming, or a // or * comment
IsBlankOrComment(line) ==
  LET t == Trim(line)
  IN  t = << >> \/ (Len(t) >= 2 /\ t[1] = "/" /\ t[2] = "/") \/ (Len(t) >= 1 /\ t[1] = "*")

\* all the added lines of a diff map, file after file
RECURSIVE AllLines(_)
AllLines(diffMap) ==
  IF diffMap = << >> THEN << >>
  ELSE Head(diffMap).lines \o AllLines(Tail(diffMap))

\* all the additions of the snapshots that have an additions array
AllAdditions(snaps) ==
  UNION { UNION { Range(snaps[i].changes.items[j].additions.items) :
                    j \in { k \in 1..Len(snaps[i].changes.items) :
                              snaps[i].changes.items[k].additions.t = "array" } } :
            i \in { k \in 1..Len(snaps) : snaps[k].changes.t = "array" } }

Classifiable(lines) == { i \in 1..Len(lines) : ~IsBlankOrComment(lines[i]) }

PercentIs(p, n) == p.den > 0 /\ p.num = n * p.den

\* the lines the map holds for a file, none when the file is no key
Lookup(diffMap, file) ==
  IF MapHas(diffMap, file) THEN diffMap[IndexOf([i \in 1..Len(diffMap) |-> diffMap[i].file], file)].lines
  ELSE << >>

DiffLines == IF diffOut.ok THEN Split(diffOut.text, "\n") ELSE << >>

\* a file header of a unified diff, as git writes it
IsFileHeader(line) == StartsWith(line, << "+", "+", "+", " " >>)

IsAddedLine(line) == StartsWith(line, << "+" >>) /\ ~IsFileHeader(line)

\* the index of the header that governs line i, 0 when none precedes it
HeaderBefore(lines, i) ==
  LET hs == { h \in 1..(i - 1) : IsFileHeader(lines[h]) }
  IN  IF hs = {} THEN 0 ELSE CHOOSE h \in hs : \A g \in hs : g <= h

FileOfLine(lines, i) ==
  IF HeaderBefore(lines, i) = 0 THEN << >> ELSE Substring(lines[HeaderBefore(lines, i)], 6)

\* what the claim has the extractor hold for a file: the contents of the
\* added lines the file's headers govern, in diff order
ExpectedLines(lines, file) ==
  LET Mine(i) == IsAddedLine(lines[i]) /\ FileOfLine(lines, i) = file
      at == SelectSeq([i \in 1..Len(lines) |-> i], Mine)
  IN  [k \in 1..Len(at) |-> Substring(lines[at[k]], 1)]

ExpectedFiles(lines) == { FileOfLine(lines, i) : i \in { j \in 1..Len(lines) : IsAddedLine(lines[j]) } }

\* an added line stands before the first header
AddedBeforeHeader(lines) ==
  \E i \in 1..Len(lines) : IsAddedLine(lines[i]) /\ HeaderBefore(lines, i) = 0

Returned == [threw |-> FALSE, value |-> snapshots]

\* the store without its unreadable and malformed files
IsSoundFile(f) == f.readable /\ f.content.json = "object"

IsDroppedFile(f) == IsJsonFile(f) /\ ~IsSoundFile(f)

KeepsFile(f) == ~IsDroppedFile(f)

CleanDate(d) == [d EXCEPT !.files = SelectSeq(@, KeepsFile)]

CleanBranch(b) == [b EXCEPT !.entries = [i \in 1..Len(@) |-> IF @[i].isDir THEN CleanDate(@[i]) ELSE @[i]]]

CleanStore(st) ==
  IF ~st.exists THEN st
  ELSE [st EXCEPT !.entries = [i \in 1..Len(@) |-> IF @[i].isDir THEN CleanBranch(@[i]) ELSE @[i]]]

StoreFiles(st) ==
  IF ~st.exists THEN {}
  ELSE UNION { UNION { Range(st.entries[b].entries[d].files) :
                         d \in { k \in 1..Len(st.entries[b].entries) : st.entries[b].entries[k].isDir } } :
                 b \in { k \in 1..Len(st.entries) : st.entries[k].isDir } }

CountIn(xs, x) == Cardinality({ i \in 1..Len(xs) : xs[i] = x })

HasTrailer(message) == \E i \in 1..Len(message) : message[i] = CoAuthorTrailer

---------------------------------------------------------------------------
(* The claims *)

\* the orders a sequence of n elements can be scanned in
Orders(n) == { p \in [1..n -> 1..n] : \A i, j \in 1..n : p[i] = p[j] => i = j }

Reordered(xs, p) == [i \in 1..Len(xs) |-> xs[p[i]]]

\* the similarity of a line with one snapshot vector
SimilarityWith(line, voc, snapshot) ==
  cosineSimilarity(vectorize(line, voc), snapshot.vector)

\* the scan without the early exit: the maximum over all snapshot vectors
RECURSIVE FullScanMax(_, _, _)
FullScanMax(line, voc, vectors) ==
  IF vectors = << >> THEN 0
  ELSE Max(SimilarityWith(line, voc, Head(vectors)), FullScanMax(line, voc, Tail(vectors)))

SomeSnapshotMatches(line, voc, vectors, threshold) ==
  \E j \in 1..Len(vectors) : SimilarityWith(line, voc, vectors[j]) >= threshold

\* C1: whenever no snapshot of the retention window has a usable addition
\* and the diff has at least one retained line, every retained line counts
\* as AI-generated: aiGeneratedLines = totalLines, aiPercentage = 100 and
\* needsCoAuthor is true.
C1_FallbackAllAi ==
  (/\ result.returned
   /\ SnapshotsSegments(SelectSeq(snapshots, InWindow)).value = << >>
   /\ result.totalLines > 0)
    => /\ result.aiGeneratedLines = result.totalLines
       /\ PercentIs(result.aiPercentage, 100)
       /\ result.needsCoAuthor

\* C2: every snapshot loadRecentSnapshots returns has a timestamp no older
\* than RetentionHours before now.
C2_RetentionWindow ==
  pc = "loadReturned" => \A i \in 1..Len(snapshots) : InWindow(snapshots[i])

\* C3: loadRecentSnapshots returns at most limit snapshots, most recent
\* first, and no record of the retention window that it leaves out is more
\* recent than one it returns (every record's timestamp a string, or
\* absent and replaced by the file name).
C3_MostRecentLimit ==
  (pc = "loadReturned" /\ \A f \in StoreFiles(store) :
                            IsSoundFile(f) => f.content.timestamp.t # "number") =>
    LET scanned == ScanStore(store)
        leftOut == { i \in 1..Len(scanned) :
                       /\ InWindow(scanned[i])
                       /\ CountIn(scanned, scanned[i]) > CountIn(snapshots, scanned[i]) }
    IN  /\ Len(snapshots) <= limit
        /\ \A i, j \in 1..Len(snapshots) :
             i < j => InstantOf(snapshots[i].timestamp) >= InstantOf(snapshots[j].timestamp)
        /\ \A i \in leftOut : \A j \in 1..Len(snapshots) :
             InstantOf(scanned[i].timestamp) <= InstantOf(snapshots[j].timestamp)

\* C4: attributeChanges never throws, whatever the snapshot store holds and
\* whatever the diff command does.
C4_NeverThrows == pc # "crashed"

\* C5: what loadRecentSnapshots returns from a store is what it returns from
\* the same store with the unreadable and malformed files removed.
C5_BadRecordsSkipped ==
  /\ pc = "loadReturned" => Returned \in loadRecentSnapshots(CleanStore(store), limit)
  /\ pc = "loadThrew" => [threw |-> TRUE] \in loadRecentSnapshots(CleanStore(store), limit)

C5_Witness ==
  /\ pc = "loadReturned"
  /\ snapshots # << >>
  /\ \E b \in 1..Len(store.entries) : \E d \in 1..Len(store.entries[b].entries) :
       LET files == store.entries[b].entries[d].files
       IN  /\ Len(files) >= 2
           /\ IsDroppedFile(files[1])
           /\ IsSoundFile(files[2])

\* C6: when no added line stands before the first header, getCurrentDiff
\* maps each file to exactly the contents of its added lines, in diff
\* order: every line that starts with + and is no file header, an added
\* line whose content starts with ++ included.
C6_AddedLinesPerFile ==
  (pc = "diffReturned" /\ ~AddedBeforeHeader(DiffLines)) =>
    /\ \A f \in ExpectedFiles(DiffLines) : Lookup(currentDiff, f) = ExpectedLines(DiffLines, f)
    /\ \A i \in 1..Len(currentDiff) :
         currentDiff[i].lines = ExpectedLines(DiffLines, currentDiff[i].file)

\* C7: an added line before the first header is kept, under the empty key.
C7_LinesBeforeHeaderKept ==
  pc = "diffReturned" =>
    \A i \in 1..Len(DiffLines) :
      (IsAddedLine(DiffLines[i]) /\ HeaderBefore(DiffLines, i) = 0)
        => Contains(Lookup(currentDiff, << >>), Substring(DiffLines[i], 1))

\* C8: needsCoAuthor is true exactly when 100 * aiGeneratedLines exceeds
\* 10 * totalLines (and totalLines > 0), and the commit message carries the
\* Co-authored-by trailer exactly when needsCoAuthor is true.
C8_CoAuthorStrictlyAboveTen ==
  /\ result.returned =>
       /\ result.totalLines = totalLines
       /\ result.aiGeneratedLines = aiGeneratedLines
       /\ result.needsCoAuthor <=>
            (totalLines > 0 /\ 100 * aiGeneratedLines > 10 * totalLines)
  /\ (result.returned /\ pc \in {"add", "commit", "push", "exited"}) =>
       (HasTrailer(commitMessage) <=> result.needsCoAuthor)

C8_Witness ==
  /\ pc = "add"
  /\ result.totalLines = 10
  /\ result.aiGeneratedLines = 1
  /\ ~result.needsCoAuthor
  /\ ~HasTrailer(commitMessage)

\* C9: when the diff has no classifiable line, the result is totalLines = 0,
\* aiGeneratedLines = 0, aiPercentage = 0 (a number: no 0 / 0) and
\* needsCoAuthor false, whatever the snapshots hold.
C9_NoClassifiableLines ==
  (result.returned /\ Classifiable(AllLines(getCurrentDiff(diffOut))) = {}) =>
    /\ result.totalLines = 0
    /\ result.aiGeneratedLines = 0
    /\ PercentIs(result.aiPercentage, 0)
    /\ ~result.needsCoAuthor

C9_Witness ==
  /\ result.returned
  /\ diffOut.ok
  /\ AllLines(currentDiff) # << >>
  /\ Classifiable(AllLines(currentDiff)) = {}
  /\ snapshotSegments # << >>
  /\ result.totalLines = 0

\* C10: blank and comment lines are dropped from both corpora; totalLines
\* is the number of added lines of the diff map that are not dropped; the
\* vocabulary holds only tokens of lines that are kept.
C10_LineFiltering ==
  pc \in {"vocabulary", "classify", "message", "add", "commit", "push"} =>
    LET kept == { Trim(l) : l \in { x \in AllAdditions(snapshots) \cup Range(AllLines(currentDiff)) :
                                      ~IsBlankOrComment(x) } }
    IN  /\ Range(snapshotSegments) \cup Range(currentSegments) \subseteq kept
        /\ Len(currentSegments) = Cardinality(Classifiable(AllLines(currentDiff)))
        /\ result.returned => result.totalLines = Cardinality(Classifiable(AllLines(currentDiff)))
        /\ \A i \in 1..Len(vocabulary.tokenIndex) :
             \E l \in kept : Contains(tokenize(l), vocabulary.tokenIndex[i])
        /\ \A i \in 1..Len(snapshotVectors) : snapshotVectors[i].text \in kept

C10_Witness ==
  /\ result.returned
  /\ result.totalLines > 0
  /\ \E l \in Range(AllLines(currentDiff)) : IsBlankOrComment(l)
  /\ \E l \in AllAdditions(snapshots) : IsBlankOrComment(l)

\* C11: a retained line counts as AI-generated exactly when some snapshot
\* vector is at least threshold-similar to it: the scan with its early exit
\* classifies the line of each iteration as the full scan that takes the
\* maximum does, in every order of the snapshot vectors, and after every
\* iteration aiGeneratedLines is the number of the lines classified so far
\* that some snapshot vector matches.
C11_EarlyExitEquivalence ==
  pc = "classify" =>
    /\ \A i \in { lineIdx, lineIdx + 1 } \cap (1..Len(currentSegments)) :
       \A p \in Orders(Len(snapshotVectors)) :
         LET line == currentSegments[i]
             vectors == Reordered(snapshotVectors, p)
         IN  /\ IsAiLine(line, vocabulary, vectors, DefaultThreshold)
                  <=> SomeSnapshotMatches(line, vocabulary, snapshotVectors, DefaultThreshold)
             /\ IsAiLine(line, vocabulary, vectors, DefaultThreshold)
                  <=> FullScanMax(line, vocabulary, snapshotVectors) >= DefaultThreshold
    /\ aiGeneratedLines =
         Cardinality({ i \in 1..lineIdx :
                         SomeSnapshotMatches(currentSegments[i], vocabulary,
                                             snapshotVectors, DefaultThreshold) })

\* a line the second snapshot vector matches and the first does not, and a
\* line the first matches so that the scan stops before the second
C11_Witness ==
  /\ result.returned
  /\ Len(snapshotVectors) = 2
  /\ \E i \in 1..Len(currentSegments) :
       /\ SimilarityWith(currentSegments[i], vocabulary, snapshotVectors[1]) < DefaultThreshold
       /\ SimilarityWith(currentSegments[i], vocabulary, snapshotVectors[2]) >= DefaultThreshold
  /\ \E i \in 1..Len(currentSegments) :
       SimilarityWith(currentSegments[i], vocabulary, snapshotVectors[1]) >= DefaultThreshold
  /\ result.aiGeneratedLines = result.totalLines
  /\ result.totalLines >= 2

\* test-attribution.ts line 31: identical code must score above 0.95
IdenticalPercent == 95

\* the snapshot vectors whose text is character-identical to the line
IdenticalSnapshots(line) ==
  { j \in 1..Len(snapshotVectors) : snapshotVectors[j].text = line }

\* C12: when the per-line loop classifies a line that has a token and is
\* character-identical to a snapshot line, its similarity with that
\* snapshot line is above 0.95 and the line is counted as AI-generated,
\* whatever else the two corpora hold.
C12_IdenticalLineIsAi ==
  [][(pc = "classify" /\ lineIdx' = lineIdx + 1) =>
       LET line == currentSegments[lineIdx + 1]
       IN  (tokenize(line) # << >> /\ IdenticalSnapshots(line) # {}) =>
             /\ \A j \in IdenticalSnapshots(line) :
                  SimilarityWith(line, vocabulary, snapshotVectors[j]) * 100
                    > IdenticalPercent * SimScale
             /\ aiGeneratedLines' = aiGeneratedLines + 1]_vars

\* the loop has just counted a line identical to the first snapshot line,
\* with a different snapshot line after it and a different diff line
C12_Witness ==
  /\ pc = "classify"
  /\ lineIdx >= 1
  /\ aiGeneratedLines = lineIdx
  /\ Len(snapshotVectors) = 2
  /\ snapshotVectors[1].text = currentSegments[lineIdx]
  /\ snapshotVectors[2].text # currentSegments[lineIdx]
  /\ tokenize(currentSegments[lineIdx]) # << >>
  /\ \E i \in 1..Len(currentSegments) : currentSegments[i] # currentSegments[lineIdx]

\* the tokens of a corpus
CorpusTokens(documents) ==
  UNION { Range(tokenize(documents[d])) : d \in 1..Len(documents) }

\* the documents that contain the token at least once
DocumentsWith(documents, token) ==
  { d \in 1..Len(documents) : Contains(tokenize(documents[d]), token) }

\* C13: in the vocabulary buildVocabulary returns for N documents, every
\* token of the corpus has one index, docFreq at that index is the number
\* of documents that contain the token (between 1 and N), docCount is N,
\* and an empty corpus gives a vocabulary of size 0.
C13_DocFreqCountsDocuments ==
  pc \in {"built", "vectorized"} =>
    LET documents == snapshotSegments
        N == Len(documents)
        size == Len(vocabulary.tokenIndex)
    IN  /\ vocabulary.docCount = N
        /\ Len(vocabulary.docFreq) = size
        /\ Range(vocabulary.tokenIndex) = CorpusTokens(documents)
        /\ Cardinality(CorpusTokens(documents)) = size
        /\ \A i \in 1..size :
             /\ vocabulary.docFreq[i] =
                  Cardinality(DocumentsWith(documents, vocabulary.tokenIndex[i]))
             /\ vocabulary.docFreq[i] >= 1
             /\ vocabulary.docFreq[i] <= N
        /\ N = 0 => size = 0

\* three documents, the first with a token twice, one token in all of them
\* and one in a single document
C13_Witness ==
  /\ pc = "built"
  /\ Len(snapshotSegments) = 3
  /\ Len(Distinct(tokenize(snapshotSegments[1]))) < Len(tokenize(snapshotSegments[1]))
  /\ \E i, j \in 1..Len(vocabulary.tokenIndex) :
       vocabulary.docFreq[i] = 3 /\ vocabulary.docFreq[j] = 1

\* C14: vectorize returns a vector as long as the vocabulary: empty when
\* the vocabulary is empty, all zero when the text has no token, and
\* otherwise non-zero exactly where the token of the index occurs in the
\* text; a token of the text that the vocabulary lacks changes nothing.
C14_VectorLength ==
  pc = "vectorized" =>
    LET text == snapshotVectors[1].text
        vector == snapshotVectors[1].vector
        size == Len(vocabulary.tokenIndex)
        tokens == tokenize(text)
    IN  /\ Len(vector) = size
        /\ size = 0 => vector = << >>
        /\ (size > 0 /\ tokens = << >>) => vector = [i \in 1..size |-> 0]
        /\ \A i \in 1..size :
             vector[i] # 0 => Contains(tokens, vocabulary.tokenIndex[i])
        /\ \A i \in 1..size :
             (tokens # << >> /\ Contains(tokens, vocabulary.tokenIndex[i])) => vector[i] > 0

\* a text with a token the vocabulary lacks and one it has
C14_Witness ==
  /\ pc = "vectorized"
  /\ Len(vocabulary.tokenIndex) >= 3
  /\ \E t \in Range(tokenize(snapshotVectors[1].text)) : ~Contains(vocabulary.tokenIndex, t)
  /\ \E i \in 1..Len(snapshotVectors[1].vector) : snapshotVectors[1].vector[i] > 0
  /\ \E i \in 1..Len(snapshotVectors[1].vector) : snapshotVectors[1].vector[i] = 0

\* the sum of the squares of v: norm1 and norm2 of cosineSimilarity
SquaredNorm(v) == SumProducts(v, v, Len(v))

\* w is k * v for a scale k > 0
PositiveMultiple(v, w) == \E k \in 1..MaxScale : w = Scale(v, k)

\* no index holds a non-zero entry in both vectors
DisjointSupports(v, w) ==
  \A i \in 1..Len(v) : i <= Len(w) => (v[i] = 0 \/ w[i] = 0)

\* C15: cosineSimilarity returns 0 whenever either vector has zero norm
\* (all entries zero, or the empty vector), whatever the two lengths; no
\* call divides by zero, and every call returns a number (never NaN, never
\* an infinity).
C15_ZeroNormGivesZero ==
  pc = "compared" =>
    /\ callResult.kind = "number"
    /\ (SquaredNorm(callVec1) = 0 \/ SquaredNorm(callVec2) = 0) => callResult = DoubleZero

C15_Witness ==
  /\ pc = "compared"
  /\ SquaredNorm(callVec1) > 0
  /\ Len(callVec1) < Len(callVec2)
  /\ callVec2 = Zeros(MaxVectorLength)
  /\ callResult = DoubleZero

\* |similarity - expected| < 0.01 of testCosineSimilarity, in percent
TolerancePercent == 1

\* 1 - tolerance < x < 1 + tolerance
WithinToleranceOfOne(x) ==
  /\ x.kind = "number"
  /\ ~DoubleLeq(x, DoubleOf(100 - TolerancePercent, 100))
  /\ ~DoubleLeq(DoubleOf(100 + TolerancePercent, 100), x)

DoubleMinusOne == [DoubleOne EXCEPT !.neg = TRUE]

NonNegative(v) == \A i \in 1..Len(v) : v[i] >= 0

\* C17: the result of cosineSimilarity lies in [0, 1] for two vectors of
\* non-negative entries, and in [-1, 1] for all vectors.
C17_Range ==
  pc = "compared" =>
    /\ DoubleLeq(DoubleMinusOne, callResult) /\ DoubleLeq(callResult, DoubleOne)
    /\ (NonNegative(callVec1) /\ NonNegative(callVec2)) => DoubleLeq(DoubleZero, callResult)

\* the git commands of main, in the order of lines 393-423
WorkflowOrder == << "git add .", "git commit", "git push" >>

\* the change check found something to commit
PendingChanges == statusOut.ok /\ Trim(statusOut.text) # << >>

\* C18: the git commands run in the order add, commit, push, each only
\* after the one before succeeded; git add runs only when the change
\* check found pending changes and after attribution and the commit
\* message are complete; without pending changes the process exits 0
\* having run nothing; a failed step is the last one and the exit code
\* is then 1.
C18_WorkflowOrder ==
  LET n == Len(gitLog)
  IN  /\ n <= Len(WorkflowOrder)
      /\ \A i \in 1..n : gitLog[i].cmd = WorkflowOrder[i]
      /\ \A i \in 1..(n - 1) : gitLog[i].ok
      /\ n >= 1 => /\ PendingChanges
                   /\ result.returned
                   /\ commitMessage # << >>
                   /\ pc \in {"commit", "push", "exited"}
      /\ (pc # "start" /\ ~PendingChanges) =>
           /\ pc = "exited"
           /\ exitCode = (IF statusOut.ok THEN 0 ELSE 1)
           /\ n = 0
      /\ (n >= 1 /\ ~gitLog[n].ok) => (pc = "exited" /\ exitCode = 1)
      /\ pc = "commit" => (n = 1 /\ gitLog[1].ok)
      /\ pc = "push" => (n = 2 /\ gitLog[2].ok)
      /\ (pc = "exited" /\ exitCode = 0) =>
           \/ (n = 0 /\ ~PendingChanges)
           \/ (n = 3 /\ gitLog[3].ok)
      /\ pc \in {"exited", "crashed"} <=> exitCode # -1

\* the whole workflow ran: add, commit and push succeeded
C18_Witness ==
  /\ pc = "exited"
  /\ exitCode = 0
  /\ Len(gitLog) = 3
  /\ result.returned
  /\ HasTrailer(commitMessage)

\* the counters between and after the iterations of the per-line loop
CountersInRange ==
  /\ 0 <= aiGeneratedLines
  /\ aiGeneratedLines <= totalLines
  /\ totalLines <= Len(currentSegments)
  /\ totalLines = lineIdx
  /\ result.returned =>
       /\ result.totalLines = Len(currentSegments)
       /\ result.totalLines = Cardinality(Classifiable(AllLines(currentDiff)))
       /\ result.aiGeneratedLines = aiGeneratedLines
       /\ result.aiPercentage.den > 0
       /\ 0 <= result.aiPercentage.num
       /\ result.aiPercentage.num <= 100 * result.aiPercentage.den

\* one iteration: totalLines rises by one, aiGeneratedLines by at most one,
\* and nothing else changes the counters
CountersStep ==
  /\ lineIdx' # lineIdx =>
       /\ totalLines' = totalLines + 1
       /\ aiGeneratedLines' \in { aiGeneratedLines, aiGeneratedLines + 1 }
  /\ lineIdx' = lineIdx =>
       (totalLines' = totalLines /\ aiGeneratedLines' = aiGeneratedLines)

\* C19: after every iteration of the per-line loop
\* 0 <= aiGeneratedLines <= totalLines <= number of retained lines, every
\* iteration raises totalLines by one and aiGeneratedLines by at most one,
\* and the result has totalLines equal to the number of retained lines and
\* 0 <= aiPercentage <= 100.
C19_CounterInvariant == []CountersInRange /\ [][CountersStep]_vars

\* in the middle of the loop, some lines counted as AI-generated and some
\* not
C19_Witness ==
  /\ pc = "classify"
  /\ 0 < aiGeneratedLines
  /\ aiGeneratedLines < totalLines
  /\ totalLines < Len(currentSegments)

====
